---------------------------- MODULE Spec2Model ----------------------------
(***************************************************************************)
(* Model of the Express product-catalog API (server.js): the route table,  *)
(* the handlers of GET /api/products, /api/products/:id,                   *)
(* /api/products/search/:term and /api/stats, and the backing store        *)
(* operations they issue.  Strings are sequences of one-character strings  *)
(* so that parseInt, parseFloat, trim and the case-insensitive substring   *)
(* match are computed character by character.  Prices are in cents.        *)
(***************************************************************************)
EXTENDS Integers, Sequences, FiniteSets, TLC

VARIABLES catalog, pc, route, req, locals, ops, responses

vars == <<catalog, pc, route, req, locals, ops, responses>>

-----------------------------------------------------------------------------
(* Bounds of the model *)

MaxPage == 3
MaxProducts == 3

(* Program constants *)

DefaultPage == 1
DefaultLimit == 20
MaxLimit == 100
DefaultSearchLimit == 10
MinTermLength == 2

-----------------------------------------------------------------------------
(* JavaScript values *)

Absent == [present |-> FALSE, val |-> <<>>]
Str(s) == [present |-> TRUE, val |-> s]

\* truthiness of a string-or-undefined value
Truthy(p) == p.present /\ p.val # <<>>

NaN == [nan |-> TRUE, v |-> 0]
Num(n) == [nan |-> FALSE, v |-> n]

\* x || d  for a number x
OrDefault(x, d) == IF x.nan \/ x.v = 0 THEN d ELSE x.v

\* a value that may be null: the empty tuple, or the one-tuple of the value
Null == <<>>
Some(x) == <<x>>
IsNull(x) == x = <<>>
Val(x) == x[1]

Digits == <<"0", "1", "2", "3", "4", "5", "6", "7", "8", "9">>
LowerChars == <<"a", "b", "c", "d", "e", "f", "g", "h", "i", "j", "k", "l", "m",
                "n", "o", "p", "q", "r", "s", "t", "u", "v", "w", "x", "y", "z">>
UpperChars == <<"A", "B", "C", "D", "E", "F", "G", "H", "I", "J", "K", "L", "M",
                "N", "O", "P", "Q", "R", "S", "T", "U", "V", "W", "X", "Y", "Z">>

IsDigit(c) == \E i \in 1..Len(Digits) : Digits[i] = c
DigitVal(c) == (CHOOSE i \in 1..Len(Digits) : Digits[i] = c) - 1
IsSpace(c) == c = " "

Min(a, b) == IF a < b THEN a ELSE b
Max(a, b) == IF a > b THEN a ELSE b

RECURSIVE SkipSpaces(_)
SkipSpaces(s) == IF s # <<>> /\ IsSpace(Head(s)) THEN SkipSpaces(Tail(s)) ELSE s

RECURSIVE DigitRun(_)
DigitRun(s) == IF s # <<>> /\ IsDigit(Head(s))
               THEN <<Head(s)>> \o DigitRun(Tail(s))
               ELSE <<>>

RECURSIVE DigitsValue(_)
DigitsValue(ds) == IF ds = <<>> THEN 0
                   ELSE 10 * DigitsValue(SubSeq(ds, 1, Len(ds) - 1)) + DigitVal(ds[Len(ds)])

HasSign(s) == s # <<>> /\ Head(s) \in {"-", "+"}
SignOf(s) == IF s # <<>> /\ Head(s) = "-" THEN -1 ELSE 1
DropSign(s) == IF HasSign(s) THEN Tail(s) ELSE s

\* parseInt(x): undefined and strings without a leading integer give NaN
ParseInt(p) ==
    IF ~p.present THEN NaN
    ELSE LET t == SkipSpaces(p.val)
             u == DropSign(t)
             ds == DigitRun(u)
         IN IF ds = <<>> THEN NaN ELSE Num(SignOf(t) * DigitsValue(ds))

\* the first two fraction digits as cents
FractionCents(fs) ==
    IF Len(fs) = 0 THEN 0
    ELSE IF Len(fs) = 1 THEN 10 * DigitVal(fs[1])
    ELSE 10 * DigitVal(fs[1]) + DigitVal(fs[2])

\* parseFloat(s), in cents
ParseFloat(s) ==
    LET t == SkipSpaces(s)
        u == DropSign(t)
        ds == DigitRun(u)
        rest == SubSeq(u, Len(ds) + 1, Len(u))
        fs == IF rest # <<>> /\ Head(rest) = "." THEN DigitRun(Tail(rest)) ELSE <<>>
    IN IF ds = <<>> /\ fs = <<>> THEN NaN
       ELSE Num(SignOf(t) * (100 * DigitsValue(ds) + FractionCents(fs)))

RECURSIVE TrimEnd(_)
TrimEnd(s) == IF s # <<>> /\ IsSpace(s[Len(s)]) THEN TrimEnd(SubSeq(s, 1, Len(s) - 1)) ELSE s

\* String.prototype.trim
Trim(s) == TrimEnd(SkipSpaces(s))

ToLowerChar(c) ==
    IF \E i \in 1..Len(UpperChars) : UpperChars[i] = c
    THEN LowerChars[CHOOSE i \in 1..Len(UpperChars) : UpperChars[i] = c]
    ELSE c

ToLower(s) == [i \in 1..Len(s) |-> ToLowerChar(s[i])]

\* the match without $options: 'i'
RegexMatchCaseSensitive(pat, field) ==
    \E k \in 0..(Len(field) - Len(pat)) : SubSeq(field, k + 1, k + Len(pat)) = pat

\* { field: { $regex: pat, $options: 'i' } } for a pattern of literal characters
RegexMatchI(pat, field) ==
    LET p == ToLower(pat)
        f == ToLower(field)
    IN \E k \in 0..(Len(f) - Len(p)) : SubSeq(f, k + 1, k + Len(p)) = p

\* /\d+/.test(s), the pattern without its anchors
SomeDigit(s) == \E i \in 1..Len(s) : IsDigit(s[i])

\* /^\d+$/.test(s)
AllDigits(s) == s # <<>> /\ \A i \in 1..Len(s) : IsDigit(s[i])

-----------------------------------------------------------------------------
(* Text constants *)

s_api == <<"a", "p", "i">>
s_products == <<"p", "r", "o", "d", "u", "c", "t", "s">>
s_search == <<"s", "e", "a", "r", "c", "h">>
s_categories == <<"c", "a", "t", "e", "g", "o", "r", "i", "e", "s">>
s_brands == <<"b", "r", "a", "n", "d", "s">>
s_stats == <<"s", "t", "a", "t", "s">>
s_id == <<"i", "d">>
s_retail_price == <<"r", "e", "t", "a", "i", "l", "_", "p", "r", "i", "c", "e">>
s_cost == <<"c", "o", "s", "t">>
s_desc == <<"d", "e", "s", "c">>
s_asc == <<"a", "s", "c">>

-----------------------------------------------------------------------------
(* The products collection.  Documents are kept in insertion order, which  *)
(* is not the order of their ids.                                          *)

AllProducts == <<
    [id |-> 3, name |-> <<"N", "i", "k", "e">>, category |-> <<"S", "h", "o", "e", "s">>,
     department |-> <<"M", "e", "n">>, brand |-> <<"N", "i", "k", "e">>,
     retail_price |-> 200, cost |-> 100],
    [id |-> 1, name |-> <<"C", "a", "p">>, category |-> <<"T", "e", "n", "n", "i", "s">>,
     department |-> <<"W", "o", "m", "e", "n">>, brand |-> <<"A", "x">>,
     retail_price |-> 300, cost |-> 125],
    [id |-> 2, name |-> <<"B", "a", "g">>, category |-> <<"s", "H", "o", "e", "s">>,
     department |-> <<"M", "e", "n">>, brand |-> <<"P", "u">>,
     retail_price |-> 100, cost |-> 50],
    [id |-> 4, name |-> <<"S", "o", "c", "k">>, category |-> <<"H", "a", "t", "s">>,
     department |-> <<"W", "o", "m", "e", "n">>, brand |-> <<"N", "I">>,
     retail_price |-> 250, cost |-> 90],
    [id |-> 5, name |-> <<"T", "i", "e">>, category |-> <<"H", "a", "t", "s">>,
     department |-> <<"M", "e", "n">>, brand |-> <<"A", "x">>,
     retail_price |-> 150, cost |-> 70] >>

Catalogs == { <<>>, SubSeq(AllProducts, 1, Min(MaxProducts, Len(AllProducts))) }

-----------------------------------------------------------------------------
(* Backing store operations (Mongoose model Product) *)

RegexOrNull(p) == IF Truthy(p) THEN Some(p.val) ELSE Null

EmptyQuery == [category |-> Null, department |-> Null, brand |-> Null,
               or |-> Null, retail_price |-> Null]

\* does a document satisfy a query object
Matches(doc, query) ==
    /\ IsNull(query.category) \/ RegexMatchI(Val(query.category), doc.category)
    /\ IsNull(query.department) \/ RegexMatchI(Val(query.department), doc.department)
    /\ IsNull(query.brand) \/ RegexMatchI(Val(query.brand), doc.brand)
    /\ \/ IsNull(query.or)
       \/ RegexMatchI(Val(query.or), doc.name)
       \/ RegexMatchI(Val(query.or), doc.category)
       \/ RegexMatchI(Val(query.or), doc.brand)
    /\ \/ IsNull(query.retail_price)
       \/ /\ IsNull(Val(query.retail_price).gte) \/ doc.retail_price >= Val(Val(query.retail_price).gte)
          /\ IsNull(Val(query.retail_price).lte) \/ doc.retail_price <= Val(Val(query.retail_price).lte)

RECURSIVE Filter(_, _)
Filter(docs, query) ==
    IF docs = <<>> THEN <<>>
    ELSE (IF Matches(Head(docs), query) THEN <<Head(docs)>> ELSE <<>>)
         \o Filter(Tail(docs), query)

\* the numeric sort key of a document; a field the documents lack compares equal
SortKey(doc, field) ==
    IF field = s_id THEN doc.id
    ELSE IF field = s_retail_price THEN doc.retail_price
    ELSE IF field = s_cost THEN doc.cost
    ELSE 0

Precedes(a, b, sort) == sort.dir * SortKey(a, sort.field) < sort.dir * SortKey(b, sort.field)

RECURSIVE InsertSorted(_, _, _)
InsertSorted(doc, sorted, sort) ==
    IF sorted = <<>> THEN <<doc>>
    ELSE IF Precedes(doc, Head(sorted), sort) THEN <<doc>> \o sorted
    ELSE <<Head(sorted)>> \o InsertSorted(doc, Tail(sorted), sort)

RECURSIVE SortDocs(_, _)
SortDocs(docs, sort) ==
    IF docs = <<>> THEN <<>>
    ELSE InsertSorted(docs[Len(docs)], SortDocs(SubSeq(docs, 1, Len(docs) - 1), sort), sort)

\* Product.find(query).sort(sort).skip(skip).limit(limit).lean()
Find(args) ==
    LET m == Filter(catalog, args.query)
        s == IF IsNull(args.sort) THEN m ELSE SortDocs(m, Val(args.sort))
    IN SubSeq(s, args.skip + 1, Min(Len(s), args.skip + args.limit))

\* Product.countDocuments(query)
CountDocuments(args) == Len(Filter(catalog, args.query))

\* Product.findOne({ id }).lean()
FindOne(args) ==
    IF \E i \in 1..Len(catalog) : catalog[i].id = args.id
    THEN Some(catalog[CHOOSE i \in 1..Len(catalog) : catalog[i].id = args.id])
    ELSE Null

\* Product.distinct(field)
Distinct(args) ==
    IF args.field = "category" THEN { catalog[i].category : i \in 1..Len(catalog) }
    ELSE IF args.field = "department" THEN { catalog[i].department : i \in 1..Len(catalog) }
    ELSE { catalog[i].brand : i \in 1..Len(catalog) }

RECURSIVE SumOf(_, _)
SumOf(docs, field) ==
    IF docs = <<>> THEN 0
    ELSE (IF field = "cost" THEN Head(docs).cost ELSE Head(docs).retail_price)
         + SumOf(Tail(docs), field)

MinOf(docs, field) ==
    LET vs == { IF field = "cost" THEN docs[i].cost ELSE docs[i].retail_price : i \in 1..Len(docs) }
    IN CHOOSE v \in vs : \A w \in vs : v <= w

MaxOf(docs, field) ==
    LET vs == { IF field = "cost" THEN docs[i].cost ELSE docs[i].retail_price : i \in 1..Len(docs) }
    IN CHOOSE v \in vs : \A w \in vs : v >= w

\* Product.aggregate([{ $group: { _id: null, ... } }]): one group per distinct _id,
\* hence no group at all for an empty collection.  Averages are exact fractions.
Aggregate(args) ==
    IF catalog = <<>> THEN <<>>
    ELSE << [avgPrice |-> [num |-> SumOf(catalog, "retail_price"), den |-> Len(catalog)],
             minPrice |-> MinOf(catalog, "retail_price"),
             maxPrice |-> MaxOf(catalog, "retail_price"),
             avgCost |-> [num |-> SumOf(catalog, "cost"), den |-> Len(catalog)],
             minCost |-> MinOf(catalog, "cost"),
             maxCost |-> MaxOf(catalog, "cost")] >>

OpNames == {"find", "count", "findOne", "distinctCategory", "distinctDepartment",
            "distinctBrand", "aggregate"}

StoreEval(o, args) ==
    IF o = "find" THEN Find(args)
    ELSE IF o = "count" THEN CountDocuments(args)
    ELSE IF o = "findOne" THEN FindOne(args)
    ELSE IF o = "aggregate" THEN Aggregate(args)
    ELSE Distinct(args)

NoOp == [st |-> "none", args |-> <<>>, result |-> <<>>]
Issue(args) == [st |-> "pending", args |-> args, result |-> <<>>]
NoOps == [o \in OpNames |-> NoOp]

-----------------------------------------------------------------------------
(* Route table, in registration order.  A path is its sequence of segments; *)
(* a named parameter matches exactly one non-empty segment.                 *)

Lit(s) == [lit |-> TRUE, s |-> s]
Param == [lit |-> FALSE, s |-> <<>>]

Routes == <<
    [name |-> "listProducts", any |-> FALSE, pat |-> <<Lit(s_api), Lit(s_products)>>],
    [name |-> "getProduct", any |-> FALSE, pat |-> <<Lit(s_api), Lit(s_products), Param>>],
    [name |-> "searchProducts", any |-> FALSE,
     pat |-> <<Lit(s_api), Lit(s_products), Lit(s_search), Param>>],
    [name |-> "categories", any |-> FALSE, pat |-> <<Lit(s_api), Lit(s_categories)>>],
    [name |-> "brands", any |-> FALSE, pat |-> <<Lit(s_api), Lit(s_brands)>>],
    [name |-> "stats", any |-> FALSE, pat |-> <<Lit(s_api), Lit(s_stats)>>],
    [name |-> "root", any |-> FALSE, pat |-> <<>>],
    [name |-> "notFound", any |-> TRUE, pat |-> <<>>] >>

RouteMatches(r, path) ==
    \/ r.any
    \/ /\ Len(r.pat) = Len(path)
       /\ \A i \in 1..Len(path) :
            IF r.pat[i].lit THEN r.pat[i].s = path[i] ELSE path[i] # <<>>

\* the first registered route that matches the path
Route(path) ==
    Routes[CHOOSE i \in 1..Len(Routes) :
             /\ RouteMatches(Routes[i], path)
             /\ \A j \in 1..(i - 1) : ~RouteMatches(Routes[j], path)].name

\* req.params.id, req.params.term
PathParam(path) == path[Len(path)]

-----------------------------------------------------------------------------
(* Responses *)

ErrorResponse(status, message) ==
    [status |-> status, body |-> [success |-> FALSE, error |-> message]]

InvalidPagination == ErrorResponse(400, "Invalid pagination parameters")
InvalidIdFormat == ErrorResponse(400, "Invalid product ID format")
TermTooShort == ErrorResponse(400, "Search term must be at least 2 characters long")
ProductNotFound(id) == ErrorResponse(404, [text |-> "Product with ID not found", id |-> id])
RouteNotFound(path) == ErrorResponse(404, [text |-> "Route not found", path |-> path])

\* the catch block of each handler
CatchResponse(r) ==
    ErrorResponse(500,
        IF r = "listProducts" THEN "Internal server error while fetching products"
        ELSE IF r = "getProduct" THEN "Internal server error while fetching product"
        ELSE IF r = "searchProducts" THEN "Internal server error while searching products"
        ELSE "Internal server error while fetching statistics")

-----------------------------------------------------------------------------
(* GET /api/products *)

\* req.query.minPrice ? parseFloat(req.query.minPrice) : null
ParsePrice(p) == IF Truthy(p) THEN Some(ParseFloat(p.val)) ELSE Null

\* an explicit presence check in place of truthiness
PricePresent(x) == ~IsNull(x) /\ ~Val(x).nan

\* truthiness of a number-or-null price
PriceTruthy(x) == ~IsNull(x) /\ ~Val(x).nan /\ Val(x).v # 0

PriceBound(x) == IF PriceTruthy(x) THEN Some(Val(x).v) ELSE Null

BuildQuery(category, department, brand, search, minPrice, maxPrice) ==
    [category |-> RegexOrNull(category),
     department |-> RegexOrNull(department),
     brand |-> RegexOrNull(brand),
     or |-> RegexOrNull(search),
     retail_price |->
        IF PriceTruthy(minPrice) \/ PriceTruthy(maxPrice)
        THEN Some([gte |-> PriceBound(minPrice), lte |-> PriceBound(maxPrice)])
        ELSE Null]

\* the page read from the limit parameter
ParsePageFromLimit(q) == OrDefault(ParseInt(q.limit), DefaultPage)

ParsePage(q) == OrDefault(ParseInt(q.page), DefaultPage)
ParseLimit(q) == OrDefault(ParseInt(q.limit), DefaultLimit)

ParseSortOrder(q) == IF q.sortOrder.present /\ q.sortOrder.val = s_desc THEN -1 ELSE 1

\* the skip computed from the page number itself
SkipOfPage(page, limit) == page * limit

SkipOf(page, limit) == (page - 1) * limit

ListLocals(q) ==
    LET page == ParsePage(q)
        limit == ParseLimit(q)
        minPrice == ParsePrice(q.minPrice)
        maxPrice == ParsePrice(q.maxPrice)
        sortBy == IF Truthy(q.sortBy) THEN q.sortBy.val ELSE s_id
        sortOrder == ParseSortOrder(q)
    IN [page |-> page, limit |-> limit,
        category |-> q.category, department |-> q.department, brand |-> q.brand,
        minPrice |-> minPrice, maxPrice |-> maxPrice, search |-> q.search,
        sortBy |-> sortBy, sortOrder |-> sortOrder,
        query |-> BuildQuery(q.category, q.department, q.brand, q.search, minPrice, maxPrice),
        sort |-> [field |-> sortBy, dir |-> sortOrder],
        skip |-> SkipOf(page, limit)]

PaginationInvalid(page, limit) == page < 1 \/ limit < 1 \/ limit > MaxLimit

\* Math.floor in place of Math.ceil
FloorDiv(a, b) == a \div b

\* Math.ceil(totalCount / limit)
CeilDiv(a, b) == IF a % b = 0 THEN a \div b ELSE (a \div b) + 1

Pagination(page, limit, totalCount) ==
    LET totalPages == CeilDiv(totalCount, limit)
        hasNextPage == page < totalPages
        hasPrevPage == page > 1
    IN [currentPage |-> page, totalPages |-> totalPages, totalCount |-> totalCount,
        limit |-> limit, hasNextPage |-> hasNextPage, hasPrevPage |-> hasPrevPage,
        nextPage |-> IF hasNextPage THEN Some(page + 1) ELSE Null,
        prevPage |-> IF hasPrevPage THEN Some(page - 1) ELSE Null]

ListSuccess(l, products, totalCount) ==
    [status |-> 200,
     body |-> [success |-> TRUE,
               data |-> products,
               pagination |-> Pagination(l.page, l.limit, totalCount),
               filters |-> [category |-> l.category, department |-> l.department,
                            brand |-> l.brand, minPrice |-> l.minPrice,
                            maxPrice |-> l.maxPrice, search |-> l.search,
                            sortBy |-> l.sortBy,
                            sortOrder |-> IF l.sortOrder = 1 THEN s_asc ELSE s_desc]]]

-----------------------------------------------------------------------------
(* GET /api/products/:id *)

ProductResponse(id, product) ==
    IF IsNull(product) THEN ProductNotFound(id)
    ELSE [status |-> 200, body |-> [success |-> TRUE, data |-> Val(product)]]

(* GET /api/products/search/:term *)

\* the length check without trim()
TermInvalidUntrimmed(term) == term = <<>> \/ Len(term) < MinTermLength

TermInvalid(term) == term = <<>> \/ Len(Trim(term)) < MinTermLength

SearchQuery(term) == [EmptyQuery EXCEPT !.or = Some(term)]

SearchSuccess(term, products) ==
    [status |-> 200,
     body |-> [success |-> TRUE, data |-> products, count |-> Len(products),
               searchTerm |-> term]]

(* GET /api/stats *)

\* priceStats[0]?.field without the "|| 0" default; -1 stands for the missing value
StatOrMissing(priceStats, field) ==
    IF priceStats = <<>> THEN -1
    ELSE IF field = "minPrice" THEN priceStats[1].minPrice
    ELSE IF field = "maxPrice" THEN priceStats[1].maxPrice
    ELSE IF field = "minCost" THEN priceStats[1].minCost
    ELSE priceStats[1].maxCost

\* priceStats[0]?.field || 0
StatOrZero(priceStats, field) ==
    IF priceStats = <<>> THEN 0
    ELSE IF field = "minPrice" THEN priceStats[1].minPrice
    ELSE IF field = "maxPrice" THEN priceStats[1].maxPrice
    ELSE IF field = "minCost" THEN priceStats[1].minCost
    ELSE priceStats[1].maxCost

\* Math.round((priceStats[0]?.avg || 0) * 100) / 100, in cents, halves rounded up
AvgOrZero(priceStats, field) ==
    IF priceStats = <<>> THEN 0
    ELSE LET a == IF field = "avgPrice" THEN priceStats[1].avgPrice ELSE priceStats[1].avgCost
         IN (2 * a.num + a.den) \div (2 * a.den)

StatsSuccess(totalProducts, categories, departments, brands, priceStats) ==
    [status |-> 200,
     body |-> [success |-> TRUE,
               data |-> [totalProducts |-> totalProducts,
                         uniqueCategories |-> Cardinality(categories),
                         uniqueDepartments |-> Cardinality(departments),
                         uniqueBrands |-> Cardinality(brands),
                         priceRange |-> [min |-> StatOrZero(priceStats, "minPrice"),
                                         max |-> StatOrZero(priceStats, "maxPrice"),
                                         average |-> AvgOrZero(priceStats, "avgPrice")],
                         costRange |-> [min |-> StatOrZero(priceStats, "minCost"),
                                        max |-> StatOrZero(priceStats, "maxCost"),
                                        average |-> AvgOrZero(priceStats, "avgCost")]]]]

-----------------------------------------------------------------------------
(* Requests the model draws *)

RECURSIVE Decimal(_)
Decimal(n) == IF n < 10 THEN <<Digits[n + 1]>>
              ELSE Decimal(n \div 10) \o <<Digits[(n % 10) + 1]>>

NoParams == [page |-> Absent, limit |-> Absent, category |-> Absent,
             department |-> Absent, brand |-> Absent, minPrice |-> Absent,
             maxPrice |-> Absent, search |-> Absent, sortBy |-> Absent,
             sortOrder |-> Absent]

PageTokens == {Absent, Str(<<"-", "1">>), Str(<<"a", "b", "c">>)} \cup { Str(Decimal(n)) : n \in 0..MaxPage }
LimitTokens == {Absent} \cup { Str(Decimal(n)) : n \in {0, 1, 2, MaxLimit, MaxLimit + 1} }
PriceTokens == {Absent, Str(<<>>), Str(<<"0">>), Str(<<"a", "b", "c">>)}
TextTokens(s) == {Absent, Str(<<>>), Str(s)}

\* every page and limit, under both sort keys and directions
PagingQueries ==
    { [NoParams EXCEPT !.page = pg, !.limit = lm, !.sortBy = sb, !.sortOrder = so,
                       !.category = ct] :
        pg \in PageTokens, lm \in LimitTokens,
        sb \in {Absent, Str(s_retail_price)}, so \in {Absent, Str(s_desc)},
        ct \in {Absent, Str(<<"s", "h">>)} }

\* every combination of the filter parameters
FilterQueries ==
    { [NoParams EXCEPT !.page = pg, !.limit = lm, !.category = ct, !.department = dp,
                       !.brand = br, !.search = se, !.minPrice = mn, !.maxPrice = mx] :
        pg \in {Absent, Str(<<"2">>)}, lm \in {Absent, Str(<<"1">>)},
        ct \in TextTokens(<<"s", "h">>), dp \in {Absent, Str(<<"w", "o">>)},
        br \in {Absent, Str(<<"n", "i", "k">>)}, se \in TextTokens(<<"n", "i">>),
        mn \in PriceTokens \cup {Str(<<"2">>)},
        mx \in PriceTokens \cup {Str(<<"3", ".", "0">>)} }

ListRequests ==
    { [path |-> <<s_api, s_products>>, query |-> q] : q \in PagingQueries \cup FilterQueries }

IdTokens == { <<"1">>, <<"2">>, <<"0", "3">>, <<"9">>, <<"a", "b", "c">>, <<"1", "a">>,
              <<"-", "1">>, s_search }

ProductRequests ==
    { [path |-> <<s_api, s_products, x>>, query |-> NoParams] : x \in IdTokens }

TermTokens == { <<"a">>, <<"a", "b">>, <<" ", "a">>, <<"a", " ">>, <<" ", " ">>,
                <<"n", "i">>, <<" ", "n", "i", " ">>, <<"N", "I">>, <<"1", "2">>,
                <<"s", "h", "o">> }

SearchRequests ==
    { [path |-> <<s_api, s_products, s_search, t>>, query |-> [NoParams EXCEPT !.limit = lm]] :
        t \in TermTokens, lm \in {Absent, Str(<<"0">>), Str(<<"1">>)} }

OtherRequests ==
    { [path |-> p, query |-> NoParams] : p \in { <<s_api, s_stats>>, <<s_api>>,
                                                 <<s_api, s_stats, <<"1">>>> } }

Requests == ListRequests \cup ProductRequests \cup SearchRequests \cup OtherRequests

-----------------------------------------------------------------------------
(* State machine: one request at a time; a handler runs to its await, the   *)
(* store settles each pending operation, and the handler resumes when the   *)
(* awaited promise settles.                                                 *)

NoRequest == [path |-> <<>>, query |-> NoParams]

Init ==
    /\ catalog \in Catalogs
    /\ pc = "idle"
    /\ route = "none"
    /\ req = NoRequest
    /\ locals = [page |-> 0]
    /\ ops = NoOps
    /\ responses = <<>>

\* no request is being handled
Ready == pc = "idle"

Accept(r, name) ==
    /\ Ready
    /\ Route(r.path) = name
    /\ req' = r
    /\ route' = name
    /\ UNCHANGED catalog

Respond(resp) == responses' = <<resp>> /\ pc' = "done" /\ ops' = NoOps

Await(issued) == responses' = <<>> /\ pc' = "awaiting" /\ ops' = issued

ListProductsHandler(r) ==
    /\ Accept(r, "listProducts")
    /\ LET l == ListLocals(r.query)
       IN /\ locals' = l
          /\ IF PaginationInvalid(l.page, l.limit)
             THEN Respond(InvalidPagination)
             ELSE Await([NoOps EXCEPT
                    !["find"] = Issue([query |-> l.query, sort |-> Some(l.sort),
                                       skip |-> l.skip, limit |-> l.limit]),
                    !["count"] = Issue([query |-> l.query])])

GetProductHandler(r) ==
    /\ Accept(r, "getProduct")
    /\ LET productId == PathParam(r.path)
       IN IF ~AllDigits(productId)
          THEN /\ locals' = [productId |-> productId]
               /\ Respond(InvalidIdFormat)
          ELSE LET id == ParseInt(Str(productId)).v
               IN /\ locals' = [productId |-> productId, id |-> id]
                  /\ Await([NoOps EXCEPT !["findOne"] = Issue([id |-> id])])

SearchProductsHandler(r) ==
    /\ Accept(r, "searchProducts")
    /\ LET searchTerm == PathParam(r.path)
           limit == OrDefault(ParseInt(r.query.limit), DefaultSearchLimit)
       IN /\ locals' = [searchTerm |-> searchTerm, limit |-> limit]
          /\ IF TermInvalid(searchTerm)
             THEN Respond(TermTooShort)
             ELSE Await([NoOps EXCEPT
                    !["find"] = Issue([query |-> SearchQuery(searchTerm), sort |-> Null,
                                       skip |-> 0, limit |-> limit])])

GetStatsHandler(r) ==
    /\ Accept(r, "stats")
    /\ locals' = [page |-> 0]
    /\ Await([NoOps EXCEPT
            !["count"] = Issue([query |-> EmptyQuery]),
            !["distinctCategory"] = Issue([field |-> "category"]),
            !["distinctDepartment"] = Issue([field |-> "department"]),
            !["distinctBrand"] = Issue([field |-> "brand"]),
            !["aggregate"] = Issue([group |-> "null"])])

NotFoundHandler(r) ==
    /\ Accept(r, "notFound")
    /\ locals' = [page |-> 0]
    /\ Respond(RouteNotFound(r.path))

\* Promise.all fulfils when every operation the handler issued has fulfilled
AllFulfilled(os) == \A o \in OpNames : os[o].st \in {"none", "ok"}

\* the handler's code after its await
Resume(os) ==
    IF route = "listProducts"
    THEN ListSuccess(locals, os["find"].result, os["count"].result)
    ELSE IF route = "getProduct"
    THEN ProductResponse(locals.id, os["findOne"].result)
    ELSE IF route = "searchProducts"
    THEN SearchSuccess(locals.searchTerm, os["find"].result)
    ELSE StatsSuccess(os["count"].result, os["distinctCategory"].result,
                      os["distinctDepartment"].result, os["distinctBrand"].result,
                      os["aggregate"].result)

\* a handler that reacts to every settlement, also after it has responded
AlwaysSuspended == TRUE

\* the handler is suspended at its await
Suspended == pc = "awaiting"

\* a store operation fulfils; the handler resumes if that settles its await
Fulfil(o) ==
    /\ ops[o].st = "pending"
    /\ LET os == [ops EXCEPT ![o] = [st |-> "ok", args |-> ops[o].args,
                                     result |-> StoreEval(o, ops[o].args)]]
       IN /\ ops' = os
          /\ IF Suspended /\ AllFulfilled(os)
             THEN responses' = Append(responses, Resume(os)) /\ pc' = "done"
             ELSE UNCHANGED <<responses, pc>>
    /\ UNCHANGED <<catalog, route, req, locals>>

\* a store operation fails; the awaited promise rejects and the handler's catch runs
Reject(o) ==
    /\ ops[o].st = "pending"
    /\ ops' = [ops EXCEPT ![o] = [st |-> "failed", args |-> ops[o].args, result |-> <<>>]]
    /\ IF Suspended
       THEN responses' = Append(responses, CatchResponse(route)) /\ pc' = "done"
       ELSE UNCHANGED <<responses, pc>>
    /\ UNCHANGED <<catalog, route, req, locals>>

\* the request is over: its response is sent, every operation it issued has
\* settled, and the handler's request-scoped values are discarded
EndRequest ==
    /\ pc = "done"
    /\ \A o \in OpNames : ops[o].st # "pending"
    /\ pc' = "idle"
    /\ route' = "none"
    /\ req' = NoRequest
    /\ locals' = [page |-> 0]
    /\ ops' = NoOps
    /\ responses' = <<>>
    /\ UNCHANGED catalog

\* a request arrives and its handler runs up to its response or its await
ListProducts == Ready /\ \E r \in Requests : ListProductsHandler(r)
GetProduct == Ready /\ \E r \in Requests : GetProductHandler(r)
SearchProducts == Ready /\ \E r \in Requests : SearchProductsHandler(r)
GetStats == Ready /\ \E r \in Requests : GetStatsHandler(r)
NotFound == Ready /\ \E r \in Requests : NotFoundHandler(r)

Next ==
    \/ ListProducts
    \/ GetProduct
    \/ SearchProducts
    \/ GetStats
    \/ NotFound
    \/ \E o \in OpNames : Fulfil(o)
    \/ \E o \in OpNames : Reject(o)
    \/ EndRequest

Spec == Init /\ [][Next]_vars

-----------------------------------------------------------------------------
(* Vocabulary of the properties *)

Sent == Len(responses) >= 1
Resp == responses[1]
StoreUntouched == \A o \in OpNames : ops[o].st = "none"
AllOk == \A o \in OpNames : ops[o].st \in {"none", "ok"}
SomeFailed == \E o \in OpNames : ops[o].st = "failed"

IsError(r, status) ==
    r.status = status /\ DOMAIN r.body = {"success", "error"} /\ r.body.success = FALSE

\* a text made of decimal digits only
OnlyDigits(x) ==
    x # <<>> /\ \A i \in 1..Len(x) : x[i] \in {"0", "1", "2", "3", "4", "5", "6", "7", "8", "9"}

\* the number a query-string value written in decimal digits denotes
IsDecimal(p) == p.present /\ OnlyDigits(p.val)
DecimalValue(p) == DigitsValue(p.val)

ListSucceeded == route = "listProducts" /\ Sent /\ Resp.status = 200

\* C1: a list request carrying limit=0, limit=101 or page=0 is answered 400 and
\* issues neither find nor count
C1_ZeroAndOverLimitRejected ==
    (/\ route = "listProducts"
     /\ \/ req.query.limit \in {Str(<<"0">>), Str(<<"1", "0", "1">>)}
        \/ req.query.page = Str(<<"0">>))
    => /\ StoreUntouched
       /\ Sent
       /\ IsError(Resp, 400)

\* C2: in every successful list response totalPages = ceil(totalCount/limit),
\* hasNextPage <=> page < totalPages, hasPrevPage <=> page > 1, and nextPage and
\* prevPage are page+1 and page-1 when the flag holds and null otherwise
C2_PaginationMetadata ==
    ListSucceeded =>
        LET p == Resp.body.pagination
        IN /\ p.totalCount = ops["count"].result
           /\ p.totalCount >= 0
           /\ p.limit \in 1..MaxLimit
           /\ p.totalPages * p.limit >= p.totalCount
           /\ (p.totalPages - 1) * p.limit < p.totalCount
           /\ p.hasNextPage <=> (p.currentPage < p.totalPages)
           /\ p.hasPrevPage <=> (p.currentPage > 1)
           /\ p.nextPage = (IF p.hasNextPage THEN Some(p.currentPage + 1) ELSE Null)
           /\ p.prevPage = (IF p.hasPrevPage THEN Some(p.currentPage - 1) ELSE Null)

\* a successful response whose last page is partly filled and has a successor page
C2_Witness ==
    /\ ListSucceeded
    /\ Resp.body.pagination.totalCount = 3
    /\ Resp.body.pagination.limit = 2
    /\ Resp.body.pagination.currentPage = 1
    /\ Resp.body.pagination.hasNextPage

\* C3: for a request with page >= 1 and limit in 1..100 that the store answers,
\* currentPage is the requested page and data has at most limit items
C3_CurrentPageAndLimit ==
    (/\ route = "listProducts"
     /\ IsDecimal(req.query.page) /\ DecimalValue(req.query.page) >= 1
     /\ IsDecimal(req.query.limit) /\ DecimalValue(req.query.limit) \in 1..MaxLimit
     /\ pc = "done" /\ AllOk)
    => /\ Sent
       /\ Resp.status = 200
       /\ Resp.body.pagination.currentPage = DecimalValue(req.query.page)
       /\ Len(Resp.body.data) <= DecimalValue(req.query.limit)

\* page 2 of a three-product catalog at limit 1, which has more products than fit
C3_Witness ==
    /\ ListSucceeded
    /\ req.query.page = Str(<<"2">>) /\ req.query.limit = Str(<<"1">>)
    /\ Resp.body.pagination.totalCount = 3
    /\ Len(Resp.body.data) = 1

\* the catalog positions the handler's filter selects, and their order under its sort
MatchingPositions == { i \in 1..Len(catalog) : Matches(catalog[i], locals.query) }
ComesBefore(a, b) ==
    IF locals.sortOrder = 1
    THEN SortKey(a, locals.sortBy) < SortKey(b, locals.sortBy)
    ELSE SortKey(a, locals.sortBy) > SortKey(b, locals.sortBy)
RankOf(i) == Cardinality({ j \in MatchingPositions : ComesBefore(catalog[j], catalog[i]) }) + 1

\* C4: data is exactly the window [skip, skip+limit) of the filtered, ordered catalog
\* with skip = (page-1)*limit; a page beyond totalPages gives data = [] with
\* totalCount and totalPages still those of the matching products; no page >= 1 is
\* rejected
C4_WindowOfOrderedMatches ==
    /\ ListSucceeded =>
        LET n == Cardinality(MatchingPositions)
            skip == (locals.page - 1) * locals.limit
            data == Resp.body.data
            p == Resp.body.pagination
        IN /\ Len(data) = Max(0, Min(locals.limit, n - skip))
           /\ \A k \in 1..Len(data) :
                \E i \in MatchingPositions : data[k] = catalog[i] /\ RankOf(i) = skip + k
           /\ p.totalCount = n
           /\ p.totalPages * locals.limit >= n
           /\ (p.totalPages - 1) * locals.limit < n
           /\ (n > 0 /\ locals.page > p.totalPages) => data = <<>>
    /\ (/\ route = "listProducts" /\ Sent
        /\ IsDecimal(req.query.page) /\ DecimalValue(req.query.page) >= 1
        /\ ~IsDecimal(req.query.limit) \/ DecimalValue(req.query.limit) \in 1..MaxLimit)
       => Resp.status # 400

\* page 3 at limit 2 of three matching products: past the last page
C4_Witness ==
    /\ ListSucceeded
    /\ locals.page = 3 /\ locals.limit = 2
    /\ Resp.body.pagination.totalCount = 3
    /\ Resp.body.pagination.totalPages = 2
    /\ Resp.body.data = <<>>

\* case-insensitive containment of a literal text in a field
ContainsText(field, text) ==
    \E k \in 0..(Len(field) - Len(text)) :
        \A i \in 1..Len(text) : ToLowerChar(field[k + i]) = ToLowerChar(text[i])

TextHolds(p, field) == ~p.present \/ p.val = <<>> \/ ContainsText(field, p.val)

SearchHolds(p, doc) ==
    \/ ~p.present \/ p.val = <<>>
    \/ ContainsText(doc.name, p.val)
    \/ ContainsText(doc.category, p.val)
    \/ ContainsText(doc.brand, p.val)

\* a price parameter that is present and denotes a number
PriceGiven(p) == p.present /\ p.val # <<>> /\ ~ParseFloat(p.val).nan
PriceValue(p) == ParseFloat(p.val).v

\* the products a request selects when every present numeric price bound is applied
SelectedAsGiven(doc, q) ==
    /\ TextHolds(q.category, doc.category)
    /\ TextHolds(q.department, doc.department)
    /\ TextHolds(q.brand, doc.brand)
    /\ SearchHolds(q.search, doc)
    /\ PriceGiven(q.minPrice) => doc.retail_price >= PriceValue(q.minPrice)
    /\ PriceGiven(q.maxPrice) => doc.retail_price <= PriceValue(q.maxPrice)

\* the products a request selects when only non-zero numeric price bounds are applied
SelectedNonZero(doc, q) ==
    /\ TextHolds(q.category, doc.category)
    /\ TextHolds(q.department, doc.department)
    /\ TextHolds(q.brand, doc.brand)
    /\ SearchHolds(q.search, doc)
    /\ (PriceGiven(q.minPrice) /\ PriceValue(q.minPrice) # 0)
         => doc.retail_price >= PriceValue(q.minPrice)
    /\ (PriceGiven(q.maxPrice) /\ PriceValue(q.maxPrice) # 0)
         => doc.retail_price <= PriceValue(q.maxPrice)

\* what a successful list response shows of the selection: the count, the members of
\* data, and all of the selection when the window covers the catalog
ResponseSelects(sel) ==
    LET data == Resp.body.data
    IN /\ Resp.body.pagination.totalCount = Cardinality(sel)
       /\ \A k \in 1..Len(data) : \E i \in sel : data[k] = catalog[i]
       /\ (locals.skip = 0 /\ locals.limit >= Len(catalog))
            => \A i \in sel : \E k \in 1..Len(data) : data[k] = catalog[i]
       /\ ops["find"].args.query = ops["count"].args.query

\* C5 as stated: the filter selects a product iff it satisfies every constraint whose
\* parameter is present and non-empty, price bounds included, and find and count use
\* the same filter
C5_SelectsAsGiven ==
    ListSucceeded =>
        ResponseSelects({ i \in 1..Len(catalog) : SelectedAsGiven(catalog[i], req.query) })

\* C5 amended: as C5, with a price bound applied only when its parameter denotes a
\* non-zero number
C5_SelectsNonZeroBounds ==
    ListSucceeded =>
        ResponseSelects({ i \in 1..Len(catalog) : SelectedNonZero(catalog[i], req.query) })

\* category, minPrice and maxPrice together select the one product inside all three
C5_Witness ==
    /\ ListSucceeded
    /\ req.query.category = Str(<<"s", "h">>)
    /\ req.query.minPrice = Str(<<"2">>)
    /\ req.query.maxPrice = Str(<<"3", ".", "0">>)
    /\ req.query.search = Absent /\ req.query.brand = Absent
    /\ req.query.department = Absent /\ req.query.page = Absent
    /\ req.query.limit = Absent
    /\ Len(catalog) = MaxProducts
    /\ Len(Resp.body.data) = 1
    /\ Resp.body.data[1].retail_price = 200

\* a price parameter that is zero or not a number
ZeroOrNotNumeric(p) == p.present /\ (p.val = <<>> \/ ParseFloat(p.val).nan \/ ParseFloat(p.val).v = 0)
NonZeroPrice(p) == PriceGiven(p) /\ PriceValue(p) # 0

\* C6: minPrice=0 or maxPrice=0 is treated as absent: it adds no bound on retail_price,
\* the other bound, when non-zero, is still applied, and a non-numeric price adds no
\* constraint and causes no error
C6_ZeroPriceIsAbsent ==
    /\ (route = "listProducts" /\ ops["find"].st # "none") =>
        LET q == req.query
            fq == ops["find"].args.query
        IN /\ ZeroOrNotNumeric(q.minPrice) =>
                /\ fq = ListLocals([q EXCEPT !.minPrice = Absent]).query
                /\ IsNull(fq.retail_price) \/ IsNull(Val(fq.retail_price).gte)
           /\ ZeroOrNotNumeric(q.maxPrice) =>
                /\ fq = ListLocals([q EXCEPT !.maxPrice = Absent]).query
                /\ IsNull(fq.retail_price) \/ IsNull(Val(fq.retail_price).lte)
           /\ NonZeroPrice(q.minPrice) =>
                (~IsNull(fq.retail_price) /\ Val(fq.retail_price).gte = Some(PriceValue(q.minPrice)))
           /\ NonZeroPrice(q.maxPrice) =>
                (~IsNull(fq.retail_price) /\ Val(fq.retail_price).lte = Some(PriceValue(q.maxPrice)))
           /\ ops["count"].args.query = fq
           /\ (ZeroOrNotNumeric(q.minPrice) /\ ZeroOrNotNumeric(q.maxPrice))
                => IsNull(fq.retail_price)
    /\ (/\ route = "listProducts" /\ Sent /\ ~SomeFailed
        /\ ZeroOrNotNumeric(req.query.minPrice) \/ ZeroOrNotNumeric(req.query.maxPrice)
        /\ req.query.page = Absent /\ req.query.limit = Absent)
       => Resp.status = 200

\* minPrice=0 next to maxPrice=3.0: only the upper bound reaches the store
C6_Witness ==
    /\ route = "listProducts" /\ pc = "awaiting"
    /\ req.query.minPrice = Str(<<"0">>)
    /\ req.query.maxPrice = Str(<<"3", ".", "0">>)
    /\ ops["find"].args.query.retail_price = Some([gte |-> Null, lte |-> Some(300)])

\* the product of the catalog with a given id, if any
HasProduct(id) == \E i \in 1..Len(catalog) : catalog[i].id = id
ProductWith(id) == catalog[CHOOSE i \in 1..Len(catalog) : catalog[i].id = id]

\* C7: /api/products/:id answers 400 without store access unless the id is all decimal
\* digits; otherwise it looks the integer id up and answers 404 naming the id when no
\* such product exists, 200 with the product's record when it exists, or 500 on store
\* failure; exactly one of these per request
C7_GetProductOutcomes ==
    route = "getProduct" =>
        LET x == PathParam(req.path)
        IN /\ Len(responses) <= 1
           /\ pc = "done" => Sent
           /\ ~OnlyDigits(x) => (StoreUntouched /\ Sent /\ IsError(Resp, 400))
           /\ OnlyDigits(x) =>
                /\ \A o \in OpNames : (ops[o].st # "none") <=> (o = "findOne")
                /\ ops["findOne"].args.id = DigitsValue(x)
                /\ ops["findOne"].st = "pending" <=> ~Sent
                /\ ops["findOne"].st = "failed" => IsError(Resp, 500)
                /\ (ops["findOne"].st = "ok" /\ ~HasProduct(DigitsValue(x))) =>
                      /\ IsError(Resp, 404)
                      /\ Resp.body.error.id = DigitsValue(x)
                /\ (ops["findOne"].st = "ok" /\ HasProduct(DigitsValue(x))) =>
                      /\ Resp.status = 200
                      /\ Resp.body = [success |-> TRUE, data |-> ProductWith(DigitsValue(x))]

\* /api/products/03 finds the product whose id is 3
C7_Witness ==
    /\ route = "getProduct"
    /\ PathParam(req.path) = <<"0", "3">>
    /\ Sent /\ Resp.status = 200
    /\ Resp.body.data.id = 3

\* C8: /api/products/search/:term answers 400 without store access when the trimmed
\* term has fewer than 2 characters; otherwise, the store answering, 200 with count
\* equal to the number of returned items, count 0 and data = [] included; such a path
\* is handled by the search route, not by /api/products/:id
C8_SearchOutcomes ==
    /\ (pc # "idle" /\ Len(req.path) = 4 /\ SubSeq(req.path, 1, 3) = <<s_api, s_products, s_search>>)
         => route = "searchProducts"
    /\ route = "searchProducts" =>
        LET term == PathParam(req.path)
        IN /\ Len(responses) <= 1
           /\ Len(Trim(term)) < MinTermLength => (StoreUntouched /\ Sent /\ IsError(Resp, 400))
           /\ Len(Trim(term)) >= MinTermLength =>
                /\ \A o \in OpNames : (ops[o].st # "none") <=> (o = "find")
                /\ ops["find"].st = "pending" <=> ~Sent
                /\ ops["find"].st = "failed" => IsError(Resp, 500)
                /\ ops["find"].st = "ok" =>
                      /\ Resp.status = 200
                      /\ Resp.body.success
                      /\ Resp.body.count = Len(Resp.body.data)
                      /\ Resp.body.searchTerm = term
                      /\ \A k \in 1..Len(Resp.body.data) :
                            \E i \in 1..Len(catalog) :
                                /\ Resp.body.data[k] = catalog[i]
                                /\ SearchHolds(Str(term), catalog[i])
                      /\ (\A i \in 1..Len(catalog) : ~SearchHolds(Str(term), catalog[i]))
                            => (Resp.body.data = <<>> /\ Resp.body.count = 0)

\* a two-character term that matches nothing in a non-empty catalog
C8_Witness ==
    /\ route = "searchProducts"
    /\ PathParam(req.path) = <<"a", "b">>
    /\ catalog # <<>>
    /\ Sent /\ Resp.status = 200
    /\ Resp.body.count = 0 /\ Resp.body.data = <<>>

\* C9: a list request gets one response, a complete success envelope or a complete
\* error envelope; if find or count fails, in any order of completion, the response
\* is the 500 error envelope and no success envelope is sent
C9_OneCompleteResponse ==
    route = "listProducts" =>
        /\ Len(responses) <= 1
        /\ pc = "done" <=> Sent
        /\ (ops["find"].st = "ok" /\ ops["count"].st = "ok") => Sent
        /\ Sent =>
            \/ /\ Resp.status = 200
               /\ DOMAIN Resp.body = {"success", "data", "pagination", "filters"}
               /\ Resp.body.success = TRUE
               /\ ops["find"].st = "ok" /\ ops["count"].st = "ok"
               /\ Resp.body.data = ops["find"].result
            \/ /\ IsError(Resp, 400)
               /\ StoreUntouched
            \/ /\ Resp = ErrorResponse(500, "Internal server error while fetching products")
               /\ ops["find"].st = "failed" \/ ops["count"].st = "failed"
        /\ (ops["find"].st = "failed" \/ ops["count"].st = "failed") =>
            responses = <<ErrorResponse(500, "Internal server error while fetching products")>>

\* find fulfilled first, then count failed, and later the reverse order of failure
C9_Witness ==
    /\ route = "listProducts"
    /\ ops["find"].st = "ok" /\ ops["count"].st = "failed"
    /\ Len(ops["find"].result) > 0
    /\ responses = <<ErrorResponse(500, "Internal server error while fetching products")>>

\* C10: /api/stats on an empty catalog answers 200 with all four counts 0 and every
\* min, max and average of priceRange and costRange 0
C10_EmptyCatalogStats ==
    (route = "stats" /\ catalog = <<>> /\ AllOk /\ pc = "done") =>
        /\ responses = << [status |-> 200,
                           body |-> [success |-> TRUE,
                                     data |-> [totalProducts |-> 0,
                                               uniqueCategories |-> 0,
                                               uniqueDepartments |-> 0,
                                               uniqueBrands |-> 0,
                                               priceRange |-> [min |-> 0, max |-> 0, average |-> 0],
                                               costRange |-> [min |-> 0, max |-> 0, average |-> 0]]]] >>
        /\ ops["aggregate"].result = <<>>

\* the stats response for the empty catalog
C10_Witness ==
    /\ route = "stats" /\ catalog = <<>>
    /\ Sent /\ Resp.status = 200
    /\ Resp.body.data.totalProducts = 0

=============================================================================
